---- MODULE Spec2Model ----
(***************************************************************************)
(* Page-replacement simulator: the three MMU policies of lrummu.py,        *)
(* clockmmu.py and randmmu.py, driven by read_memory / write_memory.       *)
(*                                                                         *)
(* An MMU object is a record of its fields.  A Python dict is a sequence   *)
(* of entries in insertion order (the order in which Python iterates it);  *)
(* a Python list is a sequence, indexed from 0 in the code and from 1      *)
(* here.  A call returns the set of its possible outcomes, each outcome    *)
(* being the object after the call and the exception it raised ("None"     *)
(* when it returned normally).                                             *)
(***************************************************************************)
EXTENDS Integers, Sequences, FiniteSets

\* ---------------------------------------------------------------- bounds
MaxPage == 3
MaxFrames == 2
MaxLen == 4
MaxDebugLen == 2
MaxPairLen == 2
RngPeriod == 2
MaxStackLen == 5

\* page numbers are only ever compared for equality by the three policies
Pages == 1 .. MaxPage
FrameArgs == -1 .. MaxFrames
Classes == {"LruMMU", "ClockMMU", "RandMMU"}

VARIABLES
    mmu,      \* the policy instance
    raised,   \* exception raised by the last call, "None" if it returned
    sweep,    \* slots read by the last call's find_removing_page
    trace,    \* the accesses made so far, each with the instance before it
    stdout,   \* the lines printed so far by the instance's debug mode
    peer,     \* a second instance living in the same process, if any
    rng       \* the state of the generator of the random module

vars == <<mmu, raised, sweep, trace, stdout, peer, rng>>

\* ------------------------------------------------------------ call outcomes
Return(self) == [self |-> self, raised |-> "None", inspected |-> <<>>]

Raise(self, exc) == [self |-> self, raised |-> exc, inspected |-> <<>>]

\* ------------------------------------------------------------- Python dict
DictHas(d, k) == \E i \in 1 .. Len(d) : d[i].page = k

DictIndex(d, k) == CHOOSE i \in 1 .. Len(d) : d[i].page = k

DictDel(d, k) == SelectSeq(d, LAMBDA e : e.page # k)

\* ------------------------------------------------------------------ LruMMU
LruMMU_init(frames) ==
    [cls |-> "LruMMU", number_frames |-> frames, frames |-> <<>>,
     page_faults |-> 0, disk_reads |-> 0, disk_writes |-> 0,
     debug |-> FALSE, recency_tracker |-> 0]

\* variant: the first entry of the dict is taken, whatever its last_used
min_last_used_first(d) == d[1].page

\* min(self.frames, key=last_used): the first entry, in iteration order,
\* whose last_used is minimal
min_last_used(d) ==
    LET i == CHOOSE i \in 1 .. Len(d) :
                 /\ \A j \in 1 .. Len(d) : d[i].last_used <= d[j].last_used
                 /\ \A j \in 1 .. (i - 1) : d[j].last_used > d[i].last_used
    IN d[i].page

\* variant: a hit that forgets to refresh last_used
LruMMU_hit_stale(self, page_number, is_write) ==
    LET i == DictIndex(self.frames, page_number)
    IN [self EXCEPT !.frames[i].dirty = IF is_write THEN TRUE ELSE @]

\* variant: a hit stores the kind of the access in the dirty flag
LruMMU_hit_overwrites_dirty(self, page_number, is_write) ==
    LET i == DictIndex(self.frames, page_number)
    IN [self EXCEPT !.frames[i].dirty = is_write,
                    !.frames[i].last_used = self.recency_tracker]

LruMMU_hit(self, page_number, is_write) ==
    LET i == DictIndex(self.frames, page_number)
    IN [self EXCEPT !.frames[i].dirty = IF is_write THEN TRUE ELSE @,
                    !.frames[i].last_used = self.recency_tracker]

\* variant: a new frame is not stamped with the logical clock
LruMMU_load_unstamped(self, page_number, is_write) ==
    [self EXCEPT !.frames = Append(@, [page |-> page_number, dirty |-> is_write,
                                      last_used |-> 0])]

LruMMU_load(self, page_number, is_write) ==
    [self EXCEPT !.frames = Append(@, [page |-> page_number, dirty |-> is_write,
                                      last_used |-> self.recency_tracker])]

\* variant: every eviction is written back, dirty or not
LruMMU_evict_always_writes(self) ==
    LET removing_page == min_last_used(self.frames)
    IN [self EXCEPT !.disk_writes = @ + 1,
                    !.frames = DictDel(@, removing_page)]

\* variant: the frame that was loaded first is evicted
LruMMU_evict_oldest_loaded(self) ==
    LET removing_page == self.frames[1].page
        removing_page_dirty == self.frames[1].dirty
    IN [self EXCEPT !.disk_writes = IF removing_page_dirty THEN @ + 1 ELSE @,
                    !.frames = DictDel(@, removing_page)]

LruMMU_evict(self) ==
    LET removing_page == min_last_used(self.frames)
        removing_page_dirty == self.frames[DictIndex(self.frames, removing_page)].dirty
    IN [self EXCEPT !.disk_writes = IF removing_page_dirty THEN @ + 1 ELSE @,
                    !.frames = DictDel(@, removing_page)]

LruMMU_fault(self) ==
    [self EXCEPT !.page_faults = @ + 1, !.disk_reads = @ + 1]

\* variant: off-by-one capacity test
LruMMU_is_full_off_by_one(self) == Len(self.frames) > self.number_frames

LruMMU_is_full(self) == Len(self.frames) >= self.number_frames

LruMMU_access_memory(self, page_number, is_write) ==
    LET s1 == [self EXCEPT !.recency_tracker = @ + 1]
    IN IF DictHas(s1.frames, page_number)
       THEN {Return(LruMMU_hit(s1, page_number, is_write))}
       ELSE LET s2 == LruMMU_fault(s1)
            IN IF LruMMU_is_full(s2)
               THEN IF Len(s2.frames) = 0
                    THEN {Raise(s2, "ValueError")}
                    ELSE {Return(LruMMU_load(LruMMU_evict(s2), page_number, is_write))}
               ELSE {Return(LruMMU_load(s2, page_number, is_write))}

\* ---------------------------------------------------------------- ClockMMU
\* variant: the hand starts at 1, as if slots were numbered from 1
ClockMMU_init_one_based(frames) ==
    [cls |-> "ClockMMU", number_frames |-> frames, frames |-> <<>>,
     clock_hand |-> 1,
     page_faults |-> 0, disk_reads |-> 0, disk_writes |-> 0,
     debug |-> FALSE]

ClockMMU_init(frames) ==
    [cls |-> "ClockMMU", number_frames |-> frames, frames |-> <<>>,
     clock_hand |-> 0,
     page_faults |-> 0, disk_reads |-> 0, disk_writes |-> 0,
     debug |-> FALSE]

\* a % b as Python computes it (the result has the sign of b); the loop only
\* reaches it with len(self.frames) >= 1, hence with number_frames >= 1
PyMod(a, b) == IF b > 0 THEN a % b ELSE 0 - ((0 - a) % (0 - b))

\* variant: the hand advances without wrapping around
RECURSIVE ClockMMU_find_removing_page_loop_nowrap(_, _)
ClockMMU_find_removing_page_loop_nowrap(self, inspected) ==
    IF self.clock_hand >= Len(self.frames)
    THEN [self |-> self, raised |-> "IndexError",
          removing_page_index |-> -1, inspected |-> inspected]
    ELSE LET frame == self.frames[self.clock_hand + 1]
             seen == Append(inspected, [index |-> self.clock_hand,
                                        reference |-> frame.reference])
             next_hand == self.clock_hand + 1
         IN IF frame.reference = 0
            THEN [self |-> [self EXCEPT !.clock_hand = next_hand],
                  raised |-> "None",
                  removing_page_index |-> self.clock_hand,
                  inspected |-> seen]
            ELSE ClockMMU_find_removing_page_loop_nowrap(
                     [self EXCEPT !.frames[self.clock_hand + 1].reference = 0,
                                  !.clock_hand = next_hand],
                     seen)

RECURSIVE ClockMMU_find_removing_page_loop(_, _)
ClockMMU_find_removing_page_loop(self, inspected) ==
    IF self.clock_hand >= Len(self.frames)
    THEN [self |-> self, raised |-> "IndexError",
          removing_page_index |-> -1, inspected |-> inspected]
    ELSE LET frame == self.frames[self.clock_hand + 1]
             seen == Append(inspected, [index |-> self.clock_hand,
                                        reference |-> frame.reference])
             next_hand == PyMod(self.clock_hand + 1, self.number_frames)
         IN IF frame.reference = 0
            THEN [self |-> [self EXCEPT !.clock_hand = next_hand],
                  raised |-> "None",
                  removing_page_index |-> self.clock_hand,
                  inspected |-> seen]
            ELSE ClockMMU_find_removing_page_loop(
                     [self EXCEPT !.frames[self.clock_hand + 1].reference = 0,
                                  !.clock_hand = next_hand],
                     seen)

\* variant: the slot under the hand is taken without a second chance
ClockMMU_find_removing_page_fifo(self) ==
    IF self.clock_hand >= Len(self.frames)
    THEN [self |-> self, raised |-> "IndexError",
          removing_page_index |-> -1, inspected |-> <<>>]
    ELSE [self |-> [self EXCEPT !.clock_hand =
                       PyMod(self.clock_hand + 1, self.number_frames)],
          raised |-> "None",
          removing_page_index |-> self.clock_hand,
          inspected |-> <<[index |-> self.clock_hand,
                           reference |-> self.frames[self.clock_hand + 1].reference]>>]

\* variant: the search is run a second time after it found a victim
ClockMMU_find_removing_page_twice(self) ==
    LET first == ClockMMU_find_removing_page_loop(self, <<>>)
    IN IF first.raised # "None"
       THEN first
       ELSE ClockMMU_find_removing_page_loop(first.self, first.inspected)

ClockMMU_find_removing_page(self) == ClockMMU_find_removing_page_loop(self, <<>>)

\* for frame in self.frames: the first frame whose page matches
ClockMMU_scan(frames, page_number) ==
    CHOOSE i \in 1 .. Len(frames) :
        /\ frames[i].page = page_number
        /\ \A j \in 1 .. (i - 1) : frames[j].page # page_number

\* variant: a hit leaves the hand on the slot that was hit
ClockMMU_hit_moves_hand(self, page_number, is_write) ==
    LET i == ClockMMU_scan(self.frames, page_number)
    IN [self EXCEPT !.frames[i].reference = 1,
                    !.frames[i].dirty = IF is_write THEN TRUE ELSE @,
                    !.clock_hand = i - 1]

\* variant: in debug mode a hit returns before recording the write
ClockMMU_hit_debug_returns_early(self, page_number, is_write) ==
    LET i == ClockMMU_scan(self.frames, page_number)
    IN [self EXCEPT !.frames[i].reference = 1,
                    !.frames[i].dirty = IF is_write /\ ~self.debug THEN TRUE ELSE @]

\* variant: a hit clears the reference bit of the frame it finds
ClockMMU_hit_clears_reference(self, page_number, is_write) ==
    LET i == ClockMMU_scan(self.frames, page_number)
    IN [self EXCEPT !.frames[i].reference = 0,
                    !.frames[i].dirty = IF is_write THEN TRUE ELSE @]


ClockMMU_hit(self, page_number, is_write) ==
    LET i == ClockMMU_scan(self.frames, page_number)
    IN [self EXCEPT !.frames[i].reference = 1,
                    !.frames[i].dirty = IF is_write THEN TRUE ELSE @]

\* variant: the fault is read from disk but not counted
ClockMMU_fault_uncounted(self) ==
    [self EXCEPT !.disk_reads = @ + 1]

ClockMMU_fault(self) ==
    [self EXCEPT !.page_faults = @ + 1, !.disk_reads = @ + 1]

ClockMMU_has_space(self) == Len(self.frames) < self.number_frames

\* variant: the write-back of a dirty victim is not counted
ClockMMU_replace_no_write_back(self, removing_page_index, page_number, is_write) ==
    [self EXCEPT !.frames[removing_page_index + 1] =
                     [page |-> page_number, dirty |-> is_write, reference |-> 1]]

\* variant: the new frame is stored with its reference bit cleared
ClockMMU_replace_unreferenced(self, removing_page_index, page_number, is_write) ==
    LET removing_page == self.frames[removing_page_index + 1]
    IN [self EXCEPT !.disk_writes = IF removing_page.dirty THEN @ + 1 ELSE @,
                    !.frames[removing_page_index + 1] =
                        [page |-> page_number, dirty |-> is_write, reference |-> 0]]

ClockMMU_replace(self, removing_page_index, page_number, is_write) ==
    LET removing_page == self.frames[removing_page_index + 1]
    IN [self EXCEPT !.disk_writes = IF removing_page.dirty THEN @ + 1 ELSE @,
                    !.frames[removing_page_index + 1] =
                        [page |-> page_number, dirty |-> is_write, reference |-> 1]]

\* variant: the hit scan stops one frame short of the end of the list
ClockMMU_access_memory_short_scan(self, page_number, is_write) ==
    IF \E i \in 1 .. (Len(self.frames) - 1) : self.frames[i].page = page_number
    THEN {Return(ClockMMU_hit(self, page_number, is_write))}
    ELSE LET s1 == ClockMMU_fault(self)
         IN IF ClockMMU_has_space(s1)
            THEN {Return([s1 EXCEPT !.frames =
                     Append(@, [page |-> page_number, dirty |-> is_write,
                                reference |-> 1])])}
            ELSE LET f == ClockMMU_find_removing_page(s1)
                 IN IF f.raised # "None"
                    THEN {[self |-> f.self, raised |-> f.raised,
                           inspected |-> f.inspected]}
                    ELSE {[self |-> ClockMMU_replace(f.self, f.removing_page_index,
                                                     page_number, is_write),
                           raised |-> "None", inspected |-> f.inspected]}

ClockMMU_access_memory(self, page_number, is_write) ==
    IF \E i \in 1 .. Len(self.frames) : self.frames[i].page = page_number
    THEN {Return(ClockMMU_hit(self, page_number, is_write))}
    ELSE LET s1 == ClockMMU_fault(self)
         IN IF ClockMMU_has_space(s1)
            THEN {Return([s1 EXCEPT !.frames =
                     Append(@, [page |-> page_number, dirty |-> is_write,
                                reference |-> 1])])}
            ELSE LET f == ClockMMU_find_removing_page(s1)
                 IN IF f.raised # "None"
                    THEN {[self |-> f.self, raised |-> f.raised,
                           inspected |-> f.inspected]}
                    ELSE {[self |-> ClockMMU_replace(f.self, f.removing_page_index,
                                                     page_number, is_write),
                           raised |-> "None", inspected |-> f.inspected]}

\* ----------------------------------------------------------------- RandMMU
RandMMU_init(frames) ==
    [cls |-> "RandMMU", number_frames |-> frames, frames |-> <<>>,
     page_faults |-> 0, disk_reads |-> 0, disk_writes |-> 0,
     debug |-> FALSE]

\* variant: the choice always falls on the first key
random_choice_first(d) == {d[i].page : i \in 1 .. (IF Len(d) > 0 THEN 1 ELSE 0)}

\* random.choice(list(self.frames.keys())): any key; none when the dict is empty
random_choice(d) == {d[i].page : i \in 1 .. Len(d)}

\* variant: every hit marks the page dirty
RandMMU_hit_always_dirty(self, page_number, is_write) ==
    LET i == DictIndex(self.frames, page_number)
    IN [self EXCEPT !.frames[i].dirty = TRUE]

RandMMU_hit(self, page_number, is_write) ==
    LET i == DictIndex(self.frames, page_number)
    IN [self EXCEPT !.frames[i].dirty = IF is_write THEN TRUE ELSE @]

RandMMU_load(self, page_number, is_write) ==
    [self EXCEPT !.frames = Append(@, [page |-> page_number, dirty |-> is_write])]

RandMMU_evict(self, removing_page) ==
    LET removing_page_dirty == self.frames[DictIndex(self.frames, removing_page)].dirty
    IN [self EXCEPT !.disk_writes = IF removing_page_dirty THEN @ + 1 ELSE @,
                    !.frames = DictDel(@, removing_page)]

\* variant: only a fault that evicts is read from disk
RandMMU_fault_read_on_evict(self) ==
    [self EXCEPT !.page_faults = @ + 1,
                 !.disk_reads = IF Len(self.frames) >= self.number_frames
                                THEN @ + 1 ELSE @]

RandMMU_fault(self) ==
    [self EXCEPT !.page_faults = @ + 1, !.disk_reads = @ + 1]

\* variant: off-by-one capacity test
RandMMU_is_full_off_by_one(self) == Len(self.frames) > self.number_frames

\* variant: eviction starts one frame before the capacity is reached
RandMMU_is_full_early(self) == Len(self.frames) + 1 >= self.number_frames

RandMMU_is_full(self) == Len(self.frames) >= self.number_frames

RandMMU_access_memory(self, page_number, is_write) ==
    IF DictHas(self.frames, page_number)
    THEN {Return(RandMMU_hit(self, page_number, is_write))}
    ELSE LET s1 == RandMMU_fault(self)
         IN IF RandMMU_is_full(s1)
            THEN IF Len(s1.frames) = 0
                 THEN {Raise(s1, "IndexError")}
                 ELSE {Return(RandMMU_load(RandMMU_evict(s1, removing_page),
                                           page_number, is_write)) :
                          removing_page \in random_choice(s1.frames)}
            ELSE {Return(RandMMU_load(s1, page_number, is_write))}

\* ------------------------------------------------------------ MMU contract
MMU(cls, frames) ==
    CASE cls = "LruMMU" -> LruMMU_init(frames)
      [] cls = "ClockMMU" -> ClockMMU_init(frames)
      [] cls = "RandMMU" -> RandMMU_init(frames)

access_memory(self, page_number, is_write) ==
    CASE self.cls = "LruMMU" -> LruMMU_access_memory(self, page_number, is_write)
      [] self.cls = "ClockMMU" -> ClockMMU_access_memory(self, page_number, is_write)
      [] self.cls = "RandMMU" -> RandMMU_access_memory(self, page_number, is_write)

\* the lines printed under "if self.debug:" by the call that took self to
\* the outcome r, in the order in which the code prints them
debug_output(self, page_number, is_write, r) ==
    LET resident == {self.frames[i].page : i \in 1 .. Len(self.frames)}
        removed == resident \ {r.self.frames[i].page : i \in 1 .. Len(r.self.frames)}
        second_chances ==
            [k \in 1 .. Len(SelectSeq(r.inspected, LAMBDA e : e.reference = 1)) |->
                [line |-> "SECOND CHANCE",
                 page |-> self.frames[SelectSeq(r.inspected,
                              LAMBDA e : e.reference = 1)[k].index + 1].page]]
        removing ==
            IF removed = {} THEN <<>>
            ELSE LET removing_page == CHOOSE p \in removed : TRUE
                 IN <<[line |-> IF \E i \in 1 .. Len(self.frames) :
                                     /\ self.frames[i].page = removing_page
                                     /\ self.frames[i].dirty
                                 THEN "REMOVING: Dirty" ELSE "REMOVING: Clean",
                       page |-> removing_page]>>
        loaded ==
            IF r.raised = "None"
            THEN <<[line |-> "LOADED", page |-> page_number]>> ELSE <<>>
    IN IF ~self.debug THEN <<>>
       ELSE IF page_number \in resident
            THEN <<[line |-> "HIT", page |-> page_number]>>
            ELSE <<[line |-> "FAULT", page |-> page_number]>>
                     \o second_chances \o removing \o loaded

\* ----------------------------------------------------------------- actions
NoPeer == <<>>

Init ==
    /\ \E cls \in Classes, frames \in FrameArgs : mmu = MMU(cls, frames)
    /\ raised = "None"
    /\ sweep = <<>>
    /\ trace = <<>>
    /\ stdout = <<>>
    /\ peer = NoPeer
    /\ rng = 0

\* one call of access_memory on the instance; the generator state is not
\* observed here, so every key is a possible random choice
Call(page_number, is_write) ==
    /\ \E r \in access_memory(mmu, page_number, is_write) :
          /\ mmu' = r.self
          /\ raised' = r.raised
          /\ sweep' = r.inspected
          /\ stdout' = stdout \o debug_output(mmu, page_number, is_write, r)
    /\ trace' = Append(trace, [page |-> page_number, is_write |-> is_write,
                               before |-> mmu])
    /\ UNCHANGED <<peer, rng>>

Access(page_number, is_write) ==
    /\ Len(trace) < MaxLen
    /\ Call(page_number, is_write)

read_memory == \E page_number \in Pages : Access(page_number, FALSE)

write_memory == \E page_number \in Pages : Access(page_number, TRUE)

Next == read_memory \/ write_memory

Spec == Init /\ [][Next]_vars

\* ------------------------------------------------------------------- views
Resident(self) == {self.frames[i].page : i \in 1 .. Len(self.frames)}

Size(self) == Len(self.frames)

Dirty(self, page) == \E i \in 1 .. Len(self.frames) :
                        self.frames[i].page = page /\ self.frames[i].dirty

\* the i-th access: the instance before it and after it
Before(i) == trace[i].before

After(i) == IF i = Len(trace) THEN mmu ELSE trace[i + 1].before

Steps == 1 .. Len(trace)

\* the access just made.  Every state extends the trace of its predecessor
\* by one access, so what holds of the latest access in every reachable
\* state holds of every access of every run.
Latest == {i \in Steps : i = Len(trace)}

IsFault(i) == trace[i].page \notin Resident(Before(i))

Evicted(i) == Resident(Before(i)) \ Resident(After(i))

Accesses == [i \in Steps |-> <<trace[i].page, trace[i].is_write>>]

Counters(self) == <<self.page_faults, self.disk_reads, self.disk_writes>>

TypeOK ==
    /\ mmu.cls \in Classes
    /\ raised \in {"None", "ValueError", "IndexError"}
    /\ Len(trace) <= MaxLen

\* ------------------------------------------------------------------ claims

\* C1: for every policy, page_faults equals the number of accesses whose
\* page was not resident at the moment of the access; it is at least 1 once
\* an access has been made, and an access to a resident page leaves it alone.
C1_FaultsCountMisses ==
    /\ mmu.page_faults = Cardinality({i \in Steps : IsFault(i)})
    /\ Len(trace) >= 1 => mmu.page_faults >= 1
    /\ \A i \in Latest :
          After(i).page_faults = Before(i).page_faults + (IF IsFault(i) THEN 1 ELSE 0)

C1_Witness ==
    /\ mmu.number_frames >= 1
    /\ \E i, j, k \in Steps :
          /\ i < j /\ j < k
          /\ IsFault(i) /\ ~IsFault(j) /\ IsFault(k)
          /\ Evicted(k) # {}
    /\ mmu.page_faults = 3

\* C2: disk_reads = page_faults in every state; a fault adds one to both
\* (with or without an eviction) and a hit changes neither.
C2_ReadsEqualFaults ==
    /\ mmu.disk_reads = mmu.page_faults
    /\ \A i \in Latest :
          LET d == IF IsFault(i) THEN 1 ELSE 0
          IN /\ After(i).disk_reads = Before(i).disk_reads + d
             /\ After(i).page_faults = Before(i).page_faults + d

C2_Witness ==
    /\ mmu.disk_reads = 3
    /\ \E i, j, k \in Steps :
          /\ IsFault(i) /\ Evicted(i) = {}
          /\ IsFault(j) /\ Evicted(j) # {}
          /\ ~IsFault(k)

\* C3: an access changes disk_writes only when it evicts a frame whose dirty
\* flag was true, and then by exactly one; without any write access,
\* disk_writes stays 0.
C3_WritesOnlyOnDirtyEviction ==
    /\ \A i \in Latest :
          LET d == After(i).disk_writes - Before(i).disk_writes
          IN /\ d \in {0, 1}
             /\ d = 1 <=> \E e \in Evicted(i) : Dirty(Before(i), e)
    /\ (\A i \in Steps : ~trace[i].is_write) => mmu.disk_writes = 0

C3_Witness ==
    \E i, j \in Steps :
        /\ After(i).disk_writes = Before(i).disk_writes + 1
        /\ Evicted(j) # {} /\ After(j).disk_writes = Before(j).disk_writes

\* C4: with capacity >= 1 the number of resident frames never exceeds the
\* capacity.
C4_CapacityInvariant ==
    mmu.number_frames >= 1 => Size(mmu) <= mmu.number_frames

C4_Witness ==
    /\ mmu.number_frames >= 1
    /\ Size(mmu) = mmu.number_frames
    /\ \E i, j \in Steps : i < j /\ Evicted(i) # {} /\ Evicted(j) # {}

\* C5: construction with capacity <= 0 is rejected, so no instance with
\* capacity <= 0 exists.
C5_NonPositiveCapacityRejected == mmu.number_frames >= 1

\* C6: on an instance with capacity >= 1 no read_memory / write_memory call
\* raises.
C6_NoErrorOnAccess ==
    mmu.number_frames >= 1 => raised = "None"

C6_Witness ==
    /\ mmu.number_frames >= 2
    /\ mmu.cls = "ClockMMU"
    /\ Len(sweep) = mmu.number_frames + 1
    /\ mmu.clock_hand = 1
    /\ raised = "None"

\* C7: a read of a page that is resident and clean leaves the three counters
\* unchanged and the page resident and clean, however often it is repeated.
C7_ReadHitIdempotent ==
    \A i \in Steps, j \in Latest :
        (/\ i <= j
         /\ ~IsFault(i)
         /\ ~Dirty(Before(i), trace[i].page)
         /\ \A k \in i .. j : trace[k].page = trace[i].page /\ ~trace[k].is_write)
        => /\ Counters(After(j)) = Counters(Before(i))
           /\ trace[i].page \in Resident(After(j))
           /\ ~Dirty(After(j), trace[i].page)

C7_Witness ==
    \E i, j \in Steps :
        /\ i < j
        /\ ~IsFault(i)
        /\ ~Dirty(Before(i), trace[i].page)
        /\ \A k \in i .. j : trace[k].page = trace[i].page /\ ~trace[k].is_write

\* C8: LRU with capacity 2 on (read 1, read 2, read 1, write 3) ends with
\* page_faults = 3, resident set {1, 3}, disk_writes = 0, and page 2 is the
\* page evicted when 3 is loaded.
C8_Scenario ==
    /\ mmu.cls = "LruMMU"
    /\ mmu.number_frames = 2
    /\ Accesses = <<<<1, FALSE>>, <<2, FALSE>>, <<1, FALSE>>, <<3, TRUE>>>>

C8_LruScenario ==
    C8_Scenario =>
        /\ mmu.page_faults = 3
        /\ Resident(mmu) = {1, 3}
        /\ mmu.disk_writes = 0
        /\ Evicted(4) = {2}
        /\ raised = "None"

C8_Witness == C8_Scenario /\ Resident(Before(4)) = {1, 2}

\* C9: Clock with capacity 2 and hand 0 on (read 1, read 2, read 3): loading
\* 3 clears the reference bit of slot 0 (page 1), then of slot 1 (page 2),
\* wraps to slot 0 and evicts page 1; the resident set is then {2, 3}.
C9_Scenario ==
    /\ mmu.cls = "ClockMMU"
    /\ mmu.number_frames = 2
    /\ Accesses = <<<<1, FALSE>>, <<2, FALSE>>, <<3, FALSE>>>>

C9_ClockScenario ==
    C9_Scenario =>
        /\ Before(3).clock_hand = 0
        /\ Before(3).frames = <<[page |-> 1, dirty |-> FALSE, reference |-> 1],
                                [page |-> 2, dirty |-> FALSE, reference |-> 1]>>
        /\ sweep = <<[index |-> 0, reference |-> 1],
                     [index |-> 1, reference |-> 1],
                     [index |-> 0, reference |-> 0]>>
        /\ Evicted(3) = {1}
        /\ mmu.frames = <<[page |-> 3, dirty |-> FALSE, reference |-> 1],
                          [page |-> 2, dirty |-> FALSE, reference |-> 0]>>
        /\ Resident(mmu) = {2, 3}

C9_Witness == C9_Scenario /\ Len(sweep) = 3

\* C10: for every policy with capacity 1, (write 1, read 2) ends with
\* page_faults = 2 and disk_writes = 1; in general the eviction of a dirty
\* frame counts exactly one disk write and a frame loaded by a read is clean.
C10_Scenario ==
    /\ mmu.number_frames = 1
    /\ Accesses = <<<<1, TRUE>>, <<2, FALSE>>>>

C10_DirtyWriteBack ==
    /\ C10_Scenario => mmu.page_faults = 2 /\ mmu.disk_writes = 1
    /\ \A i \in Latest :
          /\ \A e \in Evicted(i) :
                Dirty(Before(i), e) =>
                    After(i).disk_writes = Before(i).disk_writes + 1
          /\ (IsFault(i) /\ ~trace[i].is_write /\ Evicted(i) # {}) =>
                /\ trace[i].page \in Resident(After(i))
                /\ ~Dirty(After(i), trace[i].page)

C10_Witness ==
    /\ C10_Scenario
    /\ mmu.cls = "ClockMMU"
    /\ Evicted(2) = {1}
    /\ Dirty(Before(2), 1)

\* C11: with capacity 1, every access to a page other than the single
\* resident page is a fault that evicts exactly that page and leaves the
\* accessed page as the only resident page; for Random the outcome does not
\* depend on the random choice.
C11_SingleFrame ==
    /\ \A i \in Latest :
          (/\ Before(i).number_frames = 1
           /\ Resident(Before(i)) # {}
           /\ trace[i].page \notin Resident(Before(i)))
          => /\ After(i).page_faults = Before(i).page_faults + 1
             /\ Evicted(i) = Resident(Before(i))
             /\ Cardinality(Evicted(i)) = 1
             /\ Resident(After(i)) = {trace[i].page}
             /\ Size(After(i)) = 1
    /\ mmu.number_frames = 1 =>
          \A p \in Pages, w \in BOOLEAN :
              Cardinality(access_memory(mmu, p, w)) = 1

C11_Witness ==
    /\ mmu.cls = "RandMMU"
    /\ mmu.number_frames = 1
    /\ \E i, j \in Steps : i < j /\ Evicted(i) # {} /\ Evicted(j) # {}

\* C14: in every state each page number appears in at most one resident
\* frame, in particular in the Clock frame array after hits, free-slot
\* loads and in-place replacements.
C14_UniquePages ==
    \A i, j \in 1 .. Len(mmu.frames) :
        i # j => mmu.frames[i].page # mmu.frames[j].page

C14_Witness ==
    /\ mmu.cls = "ClockMMU"
    /\ Size(mmu) = 2
    /\ \E i, j, k \in Steps :
          /\ i < j /\ j < k
          /\ IsFault(i) /\ Evicted(i) = {}
          /\ Evicted(j) # {}
          /\ ~IsFault(k)
          /\ After(j).frames[1].reference = 0 \/ After(j).frames[2].reference = 0

\* the last_used stamp of a resident page of an LRU instance
LastUsed(self, page) == self.frames[DictIndex(self.frames, page)].last_used

\* the most recent access to page before the i-th access
LastAccess(page, i) ==
    CHOOSE k \in 1 .. (i - 1) :
        /\ trace[k].page = page
        /\ \A j \in (k + 1) .. (i - 1) : trace[j].page # page

\* a fault that finds every frame in use
IsFullFault(i) ==
    /\ Before(i).number_frames >= 1
    /\ IsFault(i)
    /\ Size(Before(i)) >= Before(i).number_frames

\* C15: in LRU a fault on a full resident set evicts the frame whose
\* last_used is strictly smallest (the page whose most recent access is the
\* oldest) and inserts the new frame with last_used = the logical clock and
\* dirty = is-write.
C15_LruEvictsOldest ==
    \A i \in Latest :
        (Before(i).cls = "LruMMU" /\ IsFullFault(i)) =>
            LET b == Before(i)
                a == After(i)
                new == a.frames[DictIndex(a.frames, trace[i].page)]
            IN /\ \E e \in Resident(b) :
                     /\ Evicted(i) = {e}
                     /\ \A q \in Resident(b) \ {e} :
                           /\ LastUsed(b, e) < LastUsed(b, q)
                           /\ LastAccess(e, i) < LastAccess(q, i)
               /\ a.recency_tracker = b.recency_tracker + 1
               /\ new.last_used = a.recency_tracker
               /\ new.dirty = trace[i].is_write

C15_Witness ==
    /\ mmu.cls = "LruMMU"
    /\ mmu.number_frames = 2
    /\ Len(trace) >= 1
    /\ IsFullFault(Len(trace))
    /\ Evicted(Len(trace)) = {Before(Len(trace)).frames[2].page}
    /\ trace[Len(trace)].is_write

\* C16: in Clock a fault with no empty slot searches from the hand in cyclic
\* order; every slot seen with reference 1 gets reference 0 and is skipped
\* (page and dirty unchanged); the first slot seen with reference 0 is the
\* victim; the hand ends at (victim + 1) mod capacity; the victim slot is
\* replaced in place by the new frame with reference 1 and dirty = is-write.
C16_ClockSearch ==
    (/\ mmu.cls = "ClockMMU"
     /\ Len(trace) >= 1
     /\ IsFullFault(Len(trace))) =>
        LET n == Len(trace)
            b == Before(n)
            cap == mmu.number_frames
            m == Len(sweep)
            v == sweep[m].index
            Visited(k) == {sweep[j].index : j \in 1 .. k}
        IN /\ m >= 1
           /\ sweep[1].index = b.clock_hand
           /\ \A k \in 1 .. (m - 1) :
                 /\ sweep[k + 1].index = (sweep[k].index + 1) % cap
                 /\ sweep[k].reference = 1
           /\ \A k \in 1 .. m :
                 sweep[k].reference =
                     IF sweep[k].index \in Visited(k - 1)
                     THEN 0 ELSE b.frames[sweep[k].index + 1].reference
           /\ sweep[m].reference = 0
           /\ mmu.clock_hand = (v + 1) % cap
           /\ Len(mmu.frames) = Len(b.frames)
           /\ mmu.frames[v + 1] = [page |-> trace[n].page,
                                   dirty |-> trace[n].is_write, reference |-> 1]
           /\ \A s \in (0 .. (cap - 1)) \ {v} :
                 /\ mmu.frames[s + 1].page = b.frames[s + 1].page
                 /\ mmu.frames[s + 1].dirty = b.frames[s + 1].dirty
                 /\ mmu.frames[s + 1].reference =
                        IF s \in Visited(m) THEN 0 ELSE b.frames[s + 1].reference

C16_Witness ==
    /\ mmu.cls = "ClockMMU"
    /\ mmu.number_frames = 2
    /\ Len(trace) >= 1
    /\ IsFullFault(Len(trace))
    /\ Before(Len(trace)).clock_hand = 1
    /\ Len(sweep) = 1
    /\ trace[Len(trace)].is_write

\* C17: the Clock eviction search terminates: from any state with all
\* capacity slots occupied, find_removing_page returns a victim after
\* reading at most capacity + 1 slots.
C17_SearchBounded ==
    (/\ mmu.cls = "ClockMMU"
     /\ mmu.number_frames >= 1) =>
        /\ Len(sweep) <= mmu.number_frames + 1
        /\ Size(mmu) = mmu.number_frames =>
              LET f == ClockMMU_find_removing_page(mmu)
              IN /\ f.raised = "None"
                 /\ f.removing_page_index \in 0 .. (mmu.number_frames - 1)
                 /\ Len(f.inspected) >= 1
                 /\ Len(f.inspected) <= mmu.number_frames + 1

C17_Witness ==
    /\ mmu.cls = "ClockMMU"
    /\ mmu.number_frames = 2
    /\ Size(mmu) = 2
    /\ Len(sweep) = 1
    /\ Len(ClockMMU_find_removing_page(mmu).inspected) = 3

\* C18: in every state of a Clock instance with capacity >= 1 the hand is
\* in 0 .. capacity - 1, and whenever an eviction search begins the hand
\* indexes an occupied slot.
C18_HandInRange ==
    (/\ mmu.cls = "ClockMMU"
     /\ mmu.number_frames >= 1) =>
        /\ mmu.clock_hand >= 0
        /\ mmu.clock_hand < mmu.number_frames
        /\ \A i \in Latest :
              IsFullFault(i) => Before(i).clock_hand < Len(Before(i).frames)

C18_Witness ==
    /\ mmu.cls = "ClockMMU"
    /\ mmu.number_frames = 2
    /\ \E i \in Steps : IsFullFault(i) /\ Before(i).clock_hand = 1
    /\ mmu.clock_hand = 0

\* C19: in Clock the hand moves only during an eviction search; a hit
\* changes nothing but the matched slot (reference 1, dirty set on a write);
\* a fault with a free slot leaves the hand and the occupied slots alone and
\* puts the new frame, reference 1 and dirty = is-write, in the first free
\* slot.
C19_ClockFrame ==
    \A i \in Latest :
        (Before(i).cls = "ClockMMU" /\ Before(i).number_frames >= 1) =>
            LET b == Before(i)
                a == After(i)
            IN /\ a.clock_hand # b.clock_hand => IsFullFault(i)
               /\ ~IsFault(i) =>
                     LET k == CHOOSE k \in 1 .. Len(b.frames) :
                                  b.frames[k].page = trace[i].page
                     IN /\ a.clock_hand = b.clock_hand
                        /\ a.frames = [b.frames EXCEPT ![k] =
                              [page |-> trace[i].page,
                               dirty |-> (b.frames[k].dirty \/ trace[i].is_write),
                               reference |-> 1]]
               /\ (IsFault(i) /\ Size(b) < b.number_frames) =>
                     /\ a.clock_hand = b.clock_hand
                     /\ a.frames = Append(b.frames,
                           [page |-> trace[i].page,
                            dirty |-> trace[i].is_write, reference |-> 1])

C19_Witness ==
    /\ mmu.cls = "ClockMMU"
    /\ Len(trace) >= 1
    /\ ~IsFault(Len(trace))
    /\ trace[Len(trace)].is_write
    /\ Before(Len(trace)).clock_hand = 1
    /\ \E k \in 1 .. Size(mmu) :
          /\ Before(Len(trace)).frames[k].page = trace[Len(trace)].page
          /\ Before(Len(trace)).frames[k].reference = 0
          /\ ~Before(Len(trace)).frames[k].dirty

\* C20: in Random a fault on a full resident set evicts exactly one page,
\* one of those resident before the access; every resident page is a
\* possible victim, whatever its recency or dirtiness; the accessed page is
\* resident afterwards with dirty = is-write.
C20_RandomVictim ==
    /\ \A i \in Latest :
          (Before(i).cls = "RandMMU" /\ IsFullFault(i)) =>
              LET b == Before(i)
                  a == After(i)
              IN /\ Cardinality(Evicted(i)) = 1
                 /\ Evicted(i) \subseteq Resident(b)
                 /\ Resident(a) = (Resident(b) \ Evicted(i)) \cup {trace[i].page}
                 /\ Size(a) = Size(b)
                 /\ Dirty(a, trace[i].page) = trace[i].is_write
                 /\ \A q \in Resident(b) \ Evicted(i) : Dirty(a, q) = Dirty(b, q)
    /\ (/\ mmu.cls = "RandMMU"
        /\ mmu.number_frames >= 1
        /\ Size(mmu) >= mmu.number_frames) =>
          \A p \in Pages \ Resident(mmu), w \in BOOLEAN :
              {Resident(mmu) \ Resident(r.self) : r \in access_memory(mmu, p, w)}
                  = {{e} : e \in Resident(mmu)}

C20_Witness ==
    /\ mmu.cls = "RandMMU"
    /\ mmu.number_frames = 2
    /\ Len(trace) >= 2
    /\ IsFullFault(Len(trace))
    /\ Evicted(Len(trace)) = {trace[Len(trace) - 1].page}
    /\ Dirty(Before(Len(trace)), trace[Len(trace) - 1].page)
    /\ \E q \in Resident(mmu) : ~Dirty(mmu, q)

\* ------------------------------------------------------------ debug mode
InitDebug ==
    /\ \E cls \in Classes, frames \in 1 .. MaxFrames : mmu = MMU(cls, frames)
    /\ raised = "None"
    /\ sweep = <<>>
    /\ trace = <<>>
    /\ stdout = <<>>
    /\ peer = NoPeer
    /\ rng = 0

set_debug ==
    /\ mmu' = [mmu EXCEPT !.debug = TRUE]
    /\ UNCHANGED <<raised, sweep, trace, stdout, peer, rng>>

reset_debug ==
    /\ mmu' = [mmu EXCEPT !.debug = FALSE]
    /\ UNCHANGED <<raised, sweep, trace, stdout, peer, rng>>

DebugAccess ==
    /\ Len(trace) < MaxDebugLen
    /\ \E page_number \in Pages, is_write \in BOOLEAN : Call(page_number, is_write)

NextDebug == DebugAccess \/ set_debug \/ reset_debug

SpecDebug == InitDebug /\ [][NextDebug]_vars

\* the instance with its debug flag disregarded
Erase(self) == [self EXCEPT !.debug = FALSE]

\* C12: debug mode is a side channel only: with debug enabled, disabled or
\* toggled at any point, every access has the same effect on the resident
\* set, the frame metadata, the hand / logical clock and the counters as
\* with debug never enabled, and nothing is printed while it is disabled.
C12_DebugSideChannel ==
    /\ \A p \in Pages, w \in BOOLEAN :
          {[r EXCEPT !.self = Erase(@)] : r \in access_memory(mmu, p, w)}
              = access_memory(Erase(mmu), p, w)
    /\ \A i \in Steps :
          Erase(After(i)) \in
              {r.self : r \in access_memory(Erase(Before(i)),
                                            trace[i].page, trace[i].is_write)}
    /\ (\A i \in Steps : ~Before(i).debug) => stdout = <<>>

C12_Witness ==
    /\ Len(trace) = 2
    /\ ~Before(1).debug
    /\ Before(2).debug
    /\ ~mmu.debug
    /\ Evicted(2) # {}
    /\ \E k \in 1 .. Len(stdout) : stdout[k].line = "REMOVING: Dirty"

\* ------------------------------------------- two instances in one process
\* RandMMU calls random.choice of the random module, whose generator is one
\* object per process: every draw reads its state and advances it.  The
\* generator is a cycle of RngPeriod states; in state g a choice among n keys
\* falls on the key of index g % n.
random_next(g) == (g + 1) % RngPeriod

\* access_memory on self with the generator in state g: the outcomes that
\* agree with the generator, and the generator state after the call
seeded_access_memory(self, page_number, is_write, g) ==
    LET outcomes == access_memory(self, page_number, is_write)
        draws == /\ self.cls = "RandMMU"
                 /\ \E r \in outcomes : Resident(self) \ Resident(r.self) # {}
        choice == self.frames[(g % Len(self.frames)) + 1].page
    IN IF draws
       THEN [outcomes |-> {r \in outcomes : choice \notin Resident(r.self)},
             rng |-> random_next(g)]
       ELSE [outcomes |-> outcomes, rng |-> g]

InitPair ==
    /\ \E cls \in Classes, frames \in 1 .. MaxFrames : mmu = MMU(cls, frames)
    /\ \E cls \in Classes, frames \in 1 .. MaxFrames :
          peer = [mmu |-> MMU(cls, frames), calls |-> 0]
    /\ rng \in 0 .. (RngPeriod - 1)
    /\ raised = "None"
    /\ sweep = <<>>
    /\ trace = <<>>
    /\ stdout = <<>>

PairAccess ==
    /\ Len(trace) < MaxPairLen
    /\ \E page_number \in Pages, is_write \in BOOLEAN :
          LET s == seeded_access_memory(mmu, page_number, is_write, rng)
          IN /\ \E r \in s.outcomes :
                   /\ mmu' = r.self
                   /\ raised' = r.raised
                   /\ sweep' = r.inspected
                   /\ stdout' = stdout \o debug_output(mmu, page_number, is_write, r)
             /\ rng' = s.rng
             /\ trace' = Append(trace, [page |-> page_number,
                                        is_write |-> is_write, before |-> mmu])
    /\ UNCHANGED peer

PeerAccess ==
    /\ peer.calls < MaxPairLen
    /\ \E page_number \in Pages, is_write \in BOOLEAN :
          LET s == seeded_access_memory(peer.mmu, page_number, is_write, rng)
          IN /\ \E r \in s.outcomes :
                   peer' = [mmu |-> r.self, calls |-> peer.calls + 1]
             /\ rng' = s.rng
    /\ UNCHANGED <<mmu, raised, sweep, trace, stdout>>

NextPair == PairAccess \/ PeerAccess

SpecPair == InitPair /\ [][NextPair]_vars

\* what the next access to each page would do to self, the process being in
\* generator state g
LaterOutcomes(self, g) ==
    [p \in Pages |-> {r.self : r \in seeded_access_memory(self, p, FALSE, g).outcomes}]

\* C13: instances share no mutable state: an access on one instance changes
\* neither the state of the other nor the outcome (resident set, eviction
\* choice, counters) of the other's later accesses.
C13_NoSharedState ==
    [][/\ peer' # peer =>
             /\ mmu' = mmu
             /\ LaterOutcomes(mmu', rng') = LaterOutcomes(mmu, rng)
       /\ trace' # trace =>
             /\ peer'.mmu = peer.mmu
             /\ LaterOutcomes(peer'.mmu, rng') = LaterOutcomes(peer.mmu, rng)]_vars

\* the access that most recently loaded page, among the first n accesses
LoadedAt(page, n) ==
    CHOOSE k \in 1 .. n :
        /\ trace[k].page = page /\ IsFault(k)
        /\ \A j \in (k + 1) .. n : ~(trace[j].page = page /\ IsFault(j))

\* C21: for every policy the dirty flag of a resident frame is true exactly
\* when a write access to its page occurred since the page was most recently
\* loaded (the loading access included); read hits and Clock second-chance
\* clearances never change a dirty flag.
C21_DirtyIffWritten ==
    /\ \A p \in Resident(mmu) :
          Dirty(mmu, p) <=>
              \E k \in LoadedAt(p, Len(trace)) .. Len(trace) :
                  trace[k].page = p /\ trace[k].is_write
    /\ \A i \in Latest :
          \A q \in Resident(Before(i)) \cap Resident(After(i)) :
              (q # trace[i].page \/ ~trace[i].is_write) =>
                  Dirty(After(i), q) = Dirty(Before(i), q)

C21_Witness ==
    /\ mmu.cls = "ClockMMU"
    /\ Len(trace) >= 1
    /\ Len(sweep) >= 2
    /\ \E p, q \in Resident(mmu) :
          /\ Dirty(mmu, p) /\ ~Dirty(mmu, q)
          /\ p # trace[Len(trace)].page
          /\ \E i, j \in Steps :
                /\ i < j
                /\ trace[i].page = p /\ trace[i].is_write
                /\ trace[j].page = p /\ ~trace[j].is_write

\* the resident pages of an LRU instance whose last_used is minimal
Oldest(self) ==
    {p \in Resident(self) :
        \A q \in Resident(self) : LastUsed(self, p) <= LastUsed(self, q)}

\* C22: in LRU the logical clock equals the number of accesses made (hits
\* and faults alike), the resident frames have pairwise distinct last_used,
\* the most recently accessed page has last_used = the logical clock; hence
\* the minimum-last_used candidate is unique and eviction is deterministic.
C22_LruClock ==
    mmu.cls = "LruMMU" =>
        /\ mmu.recency_tracker = Len(trace)
        /\ \A p, q \in Resident(mmu) :
              p # q => LastUsed(mmu, p) # LastUsed(mmu, q)
        /\ \A p \in Resident(mmu) :
              /\ LastUsed(mmu, p) >= 1
              /\ LastUsed(mmu, p) <= mmu.recency_tracker
              /\ trace[LastUsed(mmu, p)].page = p
        /\ (Len(trace) >= 1 /\ raised = "None") =>
              /\ trace[Len(trace)].page \in Resident(mmu)
              /\ LastUsed(mmu, trace[Len(trace)].page) = mmu.recency_tracker
        /\ Resident(mmu) # {} =>
              /\ Cardinality(Oldest(mmu)) = 1
              /\ Oldest(mmu) = {min_last_used(mmu.frames)}

C22_Witness ==
    /\ mmu.cls = "LruMMU"
    /\ mmu.number_frames = 2
    /\ mmu.recency_tracker = 4
    /\ mmu.page_faults = 3
    /\ Size(mmu) = 2
    /\ Oldest(mmu) = {mmu.frames[2].page}

\* the pages accessed by the first n accesses
Accessed(n) == {trace[k].page : k \in 1 .. n}

Min(a, b) == IF a <= b THEN a ELSE b

\* C23: for every policy with capacity >= 1, after each access the accessed
\* page is resident and the number of resident frames is min(capacity,
\* number of distinct pages accessed so far); the size never decreases, and
\* once it has reached the capacity every fault evicts exactly one frame.
C23_SizeGrowsToCapacity ==
    mmu.number_frames >= 1 =>
        \A i \in Latest :
            LET b == Before(i)
                a == After(i)
            IN /\ trace[i].page \in Resident(a)
               /\ Size(a) = Min(a.number_frames, Cardinality(Accessed(i)))
               /\ Cardinality(Resident(a)) = Size(a)
               /\ Size(a) >= Size(b)
               /\ (IsFault(i) /\ Size(b) = b.number_frames) =>
                     /\ Cardinality(Evicted(i)) = 1
                     /\ Size(a) = Size(b)
               /\ (~IsFault(i) \/ Size(b) < b.number_frames) => Evicted(i) = {}

C23_Witness ==
    /\ mmu.cls = "RandMMU"
    /\ mmu.number_frames = 2
    /\ Len(trace) >= 3
    /\ Size(Before(2)) = 1
    /\ Size(Before(3)) = 1
    /\ Size(mmu) = 2
    /\ Cardinality(Accessed(Len(trace))) = 3

\* ------------------------------------ one trace, two LRU capacities
\* The experiment runs the same trace once per frame count: mmu is
\* LruMMU(k) and peer is LruMMU(k + 1), both fed the same accesses.  Pages
\* are numbered in the order of their first use; k + 2 of them are enough
\* for the larger instance to evict.
InitStack ==
    /\ \E frames \in 1 .. MaxFrames :
          /\ mmu = LruMMU_init(frames)
          /\ peer = [mmu |-> LruMMU_init(frames + 1), calls |-> 0]
    /\ raised = "None"
    /\ sweep = <<>>
    /\ trace = <<>>
    /\ stdout = <<>>
    /\ rng = 0

StackAccess ==
    /\ Len(trace) < MaxStackLen
    /\ \E page_number \in 1 .. Min(Cardinality(Accessed(Len(trace))) + 1,
                                  mmu.number_frames + 2),
          is_write \in BOOLEAN :
          /\ \E r \in LruMMU_access_memory(mmu, page_number, is_write) :
                /\ mmu' = r.self
                /\ raised' = r.raised
                /\ sweep' = r.inspected
                /\ stdout' = stdout \o debug_output(mmu, page_number, is_write, r)
          /\ \E r \in LruMMU_access_memory(peer.mmu, page_number, is_write) :
                peer' = [mmu |-> r.self, calls |-> peer.calls + 1]
          /\ trace' = Append(trace, [page |-> page_number,
                                     is_write |-> is_write, before |-> mmu])
    /\ UNCHANGED rng

NextStack == StackAccess

SpecStack == InitStack /\ [][NextStack]_vars

\* C24: LRU inclusion: with the same accesses, after every access the
\* resident set of LruMMU(k) is a subset of that of LruMMU(k + 1), and the
\* larger instance has no more page faults and disk reads than the smaller.
C24_LruInclusion ==
    /\ Resident(mmu) \subseteq Resident(peer.mmu)
    /\ peer.mmu.page_faults <= mmu.page_faults
    /\ peer.mmu.disk_reads <= mmu.disk_reads
    /\ \A p \in Resident(mmu) : LastUsed(peer.mmu, p) = LastUsed(mmu, p)

C24_Witness ==
    /\ mmu.number_frames = 2
    /\ Size(peer.mmu) = 3
    /\ peer.mmu.page_faults = 4
    /\ mmu.page_faults = 5
    /\ Cardinality(Resident(peer.mmu) \ Resident(mmu)) = 1

\* ------------------------------------ the first eviction of a Clock run
NoEvictionBefore(n) == \A j \in 1 .. (n - 1) : ~IsFullFault(j)

FirstFullFault(i) == IsFullFault(i) /\ NoEvictionBefore(i)

AllReferenced(self) ==
    \A s \in 1 .. Len(self.frames) : self.frames[s].reference = 1

\* C25: in Clock, until the first eviction the hand is 0 and every occupied
\* slot has reference 1, and no access other than an eviction search clears
\* a reference bit; so the first eviction reads all capacity slots with
\* reference 1, clears them, evicts slot 0 (the first page ever loaded)
\* whatever hits came in between, and leaves the hand at 1 mod capacity.
C25_FirstEviction ==
    (/\ mmu.cls = "ClockMMU"
     /\ mmu.number_frames >= 1) =>
        /\ NoEvictionBefore(Len(trace) + 1) =>
              /\ mmu.clock_hand = 0
              /\ AllReferenced(mmu)
        /\ \A i \in Latest :
              LET b == Before(i)
                  a == After(i)
                  n == b.number_frames
              IN /\ NoEvictionBefore(i) =>
                       /\ b.clock_hand = 0
                       /\ AllReferenced(b)
                 /\ ~IsFullFault(i) =>
                       \A s \in 1 .. Len(b.frames) :
                           b.frames[s].reference = 1 => a.frames[s].reference = 1
                 /\ FirstFullFault(i) =>
                       /\ b.frames[1].page = trace[1].page
                       /\ Evicted(i) = {trace[1].page}
                       /\ a.frames[1] = [page |-> trace[i].page,
                                         dirty |-> trace[i].is_write,
                                         reference |-> 1]
                       /\ \A s \in 2 .. n :
                             /\ a.frames[s].page = b.frames[s].page
                             /\ a.frames[s].reference = 0
                       /\ a.clock_hand = 1 % n
                       /\ i = Len(trace) =>
                             /\ Len(sweep) = n + 1
                             /\ \A s \in 1 .. n :
                                   sweep[s] = [index |-> s - 1, reference |-> 1]
                             /\ sweep[n + 1] = [index |-> 0, reference |-> 0]

C25_Witness ==
    /\ mmu.cls = "ClockMMU"
    /\ mmu.number_frames = 2
    /\ Len(trace) = 4
    /\ FirstFullFault(4)
    /\ ~IsFault(3)
    /\ trace[3].page = trace[1].page
    /\ mmu.clock_hand = 1
    /\ Len(sweep) = 3
====
